---- MODULE Spec2Model ----
(***************************************************************************)
(* Model of one call of mvp_cost_minimiser (app/core/optimiser.py): the    *)
(* three input frames are joined and sorted, incomplete rows are dropped,  *)
(* the dispatch LP is built and solved, and the solved values are shaped   *)
(* into the plan (specification Spec); and of the application around it:   *)
(* the forecast services, the route POST /optimise/mvp and the scheduled   *)
(* Solcast job (specification SpecApp).                                    *)
(*                                                                         *)
(* Units.  Energy is counted in units of 1e-4 kWh and power in units of    *)
(* 1e-4 kW, so that eps = 1e-3 kWh is 10 units and a tolerance of 1e-6 kWh *)
(* is 1/100 of a unit.  Prices are whole pence per kWh.  The objective is  *)
(* counted in thousandths of a pound per kWh times energy units, so that   *)
(* price/100 is 10*price and the grid penalty weight 0.001 is 1.           *)
(* A float is a record: a finite number, NaN (pandas' null) or an          *)
(* infinity.                                                               *)
(***************************************************************************)
EXTENDS Integers, Sequences, FiniteSets, TLC

\* ------------------------------------------------------------------ bounds
\* Rows of the three input frames together, in the frame-shape inputs.
MaxRows == 5
\* Periods of the horizon, in the dispatch inputs.
MaxN == 2
\* Periods of a plan handed to the FoxESS schedule.
MaxPlan == 3

\* ------------------------------------------------------- program constants
\* eps = 1e-3 kWh, in energy units.
Eps == 10
\* dt = 0.5 h: energy = power / DtInv.
DtInv == 2
\* grid_penalty_weight = 0.001 pounds per kWh, in objective units.
grid_penalty_weight == 1
\* price / 100.0: pence to pounds, in objective units (thousandths).
PenceToObj == 10
\* half-hour slots in a day: PeriodEnd.dt.time repeats every 48 slots.
SlotsPerDay == 48

\* ------------------------------------------------------------------ floats
Num(x) == [kind |-> "num", val |-> x]
NaN == [kind |-> "nan", val |-> 0]
NegInf == [kind |-> "inf", val |-> -1]
\* The cell of a column the frame does not have.
Absent == [kind |-> "absent", val |-> 0]

notna(v) == v.kind # "nan"
isfinite(v) == v.kind = "num"

\* ---------------------------------------------------------------- helpers
Range(s) == {s[i] : i \in DOMAIN s}

RECURSIVE Concat(_)
Concat(ss) == IF ss = <<>> THEN <<>> ELSE Head(ss) \o Concat(Tail(ss))

RemoveAt(s, i) == SubSeq(s, 1, i - 1) \o SubSeq(s, i + 1, Len(s))

Abs(x) == IF x < 0 THEN -x ELSE x

MinOf(S) == CHOOSE x \in S : \A y \in S : x <= y

RECURSIVE GCD(_, _)
GCD(a, b) == IF b = 0 THEN a ELSE GCD(b, a % b)

RECURSIVE GCDSet(_)
GCDSet(S) ==
    IF S = {} THEN 0
    ELSE LET x == CHOOSE y \in S : TRUE IN GCD(Abs(x), GCDSet(S \ {x}))

\* Sequences over S of length at most n.
SeqUpTo(S, n) == UNION {[1..k -> S] : k \in 0..n}

\* ------------------------------------------------------------------ state
VARIABLES
    solar_df,        \* input frame: columns, rows [PeriodEnd, PvEstimate]
    prices_df,       \* input frame: columns, rows [PeriodEnd, price]
    demand_profile,  \* input frame: columns, rows [time_of_day, energy_kwh]
    config,          \* the seven battery / tariff parameters
    pc,              \* "called", "normalised", "solved", "returned", "raised"
    merged,          \* the joined, sorted and filtered frame
    dropped,         \* rows removed by the finite-value filter
    solves,          \* number of solver invocations so far
    status,          \* problem.status: "none", "optimal", "infeasible"
    solution,        \* the solved variable values, one record per period
    result_df,       \* the returned plan, one record per period
    error,           \* "none" or the exception raised
    handler,         \* the entry point running: "mvp_cost_minimiser",
                     \* "optimise_mvp", "fetch_and_store_solcast" or
                     \* "fetch_and_store_prices"
    hpc,             \* the entry point's position
    env,             \* which environment variables are set
    request,         \* the body of POST /optimise/mvp
    db,              \* what the provider's query finds: "rows", "empty", "error"
    calls,           \* the database and external calls made, in order
    invoked,         \* the route's calls with their outcomes, in order
    solar_prices,    \* the route's solar and price forecast
    response,        \* the HTTP response of the route
    stored,          \* the forecast runs committed to the database
    schedule_df,     \* the FoxESS schedule made from a plan, one row per period
    posted           \* the requests signed and sent to the FoxESS cloud

foxess_vars == <<schedule_df, posted>>

app_vars == <<handler, hpc, env, request, db, calls, invoked, solar_prices,
              response, stored>>

vars == <<solar_df, prices_df, demand_profile, config, pc, merged, dropped,
          solves, status, solution, result_df, error, handler, hpc, env,
          request, db, calls, invoked, solar_prices, response, stored,
          schedule_df, posted>>

\* ----------------------------------------------------------------- inputs
\* Variant of the join key that keeps the day.
time_of_day_WithDay(PeriodEnd) == PeriodEnd

\* Line 47, PeriodEnd.dt.time: the time without the day.
time_of_day(PeriodEnd) == PeriodEnd % SlotsPerDay

SolarFrame(hasPv, rows) ==
    [columns |-> {"PeriodEnd"} \cup (IF hasPv THEN {"PvEstimate"} ELSE {}),
     rows |-> rows]
PricesFrame(hasPrice, rows) ==
    [columns |-> {"PeriodEnd"} \cup (IF hasPrice THEN {"price"} ELSE {}),
     rows |-> rows]
DemandFrame(hasEnergy, rows) ==
    [columns |-> {"time_of_day"} \cup (IF hasEnergy THEN {"energy_kwh"} ELSE {}),
     rows |-> rows]

\* The function's default parameters (lines 14-20): 15 kWh, 50 %, 20-90 %,
\* 3 kW both ways, export 15 pence.
DefaultConfig ==
    [battery_capacity_kwh |-> 150000, initial_soc_pct |-> 50,
     min_soc_pct |-> 20, max_soc_pct |-> 90,
     charge_power_kw |-> 30000, discharge_power_kw |-> 30000,
     export_price_pence |-> 15]

\* Frame-shape inputs: any rows in any order, repeated keys, nulls and
\* infinities, frames without their value column; one small battery (5 kWh,
\* 1 kW).  Slots 1 and 49 are a day apart and share their time of day.
FrameConfig ==
    [DefaultConfig EXCEPT !.battery_capacity_kwh = 50000,
                          !.charge_power_kw = 10000,
                          !.discharge_power_kw = 10000]

SolarRows ==
    {[PeriodEnd |-> 1, PvEstimate |-> Num(0)],
     [PeriodEnd |-> 49, PvEstimate |-> Num(0)],
     [PeriodEnd |-> 49, PvEstimate |-> NaN]}
PricesRows ==
    {[PeriodEnd |-> 1, price |-> Num(10)],
     [PeriodEnd |-> 49, price |-> Num(10)],
     [PeriodEnd |-> 1, price |-> NegInf]}
DemandRows ==
    {[time_of_day |-> 1, energy_kwh |-> Num(5000)],
     [time_of_day |-> 1, energy_kwh |-> NaN],
     [time_of_day |-> 0, energy_kwh |-> Num(5000)]}

SolarFrames(len) ==
    {SolarFrame(TRUE, r) : r \in [1..len -> SolarRows]}
    \cup {SolarFrame(FALSE, r) :
             r \in [1..len -> [PeriodEnd : {1, 49}, PvEstimate : {Absent}]]}
PricesFrames(len) ==
    {PricesFrame(TRUE, r) : r \in [1..len -> PricesRows]}
    \cup {PricesFrame(FALSE, r) :
             r \in [1..len -> [PeriodEnd : {1, 49}, price : {Absent}]]}
DemandFrames(len) ==
    {DemandFrame(TRUE, r) : r \in [1..len -> DemandRows]}
    \cup {DemandFrame(FALSE, r) :
             r \in [1..len -> [time_of_day : {0, 1}, energy_kwh : {Absent}]]}

\* Dispatch inputs: complete frames over an ascending horizon, energies that
\* are small multiples of a unit.  At the household unit (0.5 kWh) the
\* battery is the default one, the default one with its SOC bounds swapped,
\* or the default one exporting at the lower import price; at the small
\* unit (0.0005 kWh, half of eps) it is any of a family of batteries of 10
\* or 30 units.
Units == {5, 5000}
DispatchTS == {0, 1, 49}
Prices == {10, 50}
SocPcts == {20, 60}
SocBoundPairs == {<<20, 90>>, <<90, 20>>}
PowerSteps == {<<6, 6>>, <<2, 6>>, <<6, 2>>, <<2, 4>>}
CapacitySteps == {10, 30}
PvSteps == {0, 2}
DemandSteps == {1, 4}

Horizons ==
    {T \in SeqUpTo(DispatchTS, MaxN) :
        /\ Len(T) >= 1
        /\ \A i \in 1..Len(T) - 1 : T[i] < T[i + 1]}

RECURSIVE SortedSeq(_)
SortedSeq(S) ==
    IF S = {} THEN <<>>
    ELSE LET m == MinOf(S) IN <<m>> \o SortedSeq(S \ {m})

DispatchConfigs(u) ==
    IF u * 30 = DefaultConfig.battery_capacity_kwh
    THEN {[DefaultConfig EXCEPT !.min_soc_pct = b[1], !.max_soc_pct = b[2]] :
             b \in SocBoundPairs}
         \cup {[DefaultConfig EXCEPT !.export_price_pence = MinOf(Prices)]}
    ELSE {[battery_capacity_kwh |-> cap * u, initial_soc_pct |-> init,
           min_soc_pct |-> b[1], max_soc_pct |-> b[2],
           charge_power_kw |-> p[1] * u, discharge_power_kw |-> p[2] * u,
           export_price_pence |-> 15] :
             cap \in CapacitySteps, init \in SocPcts, b \in SocBoundPairs,
             p \in PowerSteps}

InitState ==
    /\ pc = "called"
    /\ merged = [columns |-> {}, rows |-> <<>>]
    /\ dropped = 0
    /\ solves = 0
    /\ status = "none"
    /\ solution = <<>>
    /\ result_df = <<>>
    /\ error = "none"

InitFrames ==
    \E a \in 0..MaxRows, b \in 0..MaxRows, c \in 0..MaxRows :
        /\ a + b + c <= MaxRows
        /\ solar_df \in SolarFrames(a)
        /\ prices_df \in PricesFrames(b)
        /\ demand_profile \in DemandFrames(c)
        /\ config = FrameConfig

InitDispatch ==
    \E u \in Units, T \in Horizons :
        LET tods == SortedSeq({time_of_day(T[i]) : i \in DOMAIN T}) IN
        /\ \E pv \in [DOMAIN T -> PvSteps] :
              solar_df = SolarFrame(TRUE,
                  [i \in DOMAIN T |->
                      [PeriodEnd |-> T[i], PvEstimate |-> Num(pv[i] * u)]])
        /\ \E pr \in [DOMAIN T -> Prices] :
              prices_df = PricesFrame(TRUE,
                  [i \in DOMAIN T |-> [PeriodEnd |-> T[i], price |-> Num(pr[i])]])
        /\ \E dm \in [DOMAIN tods -> DemandSteps] :
              demand_profile = DemandFrame(TRUE,
                  [i \in DOMAIN tods |->
                      [time_of_day |-> tods[i], energy_kwh |-> Num(dm[i] * u)]])
        /\ config \in DispatchConfigs(u)

\* pd.DataFrame(): no columns, no rows.
EmptyFrame == [columns |-> {}, rows |-> <<>>]
NoResponse == [status_code |-> 0, detail |-> <<>>, status |-> "", schedule |-> <<>>]

\* A direct call of the optimiser: nothing of the application around it.
DirectCall ==
    /\ handler = "mvp_cost_minimiser"
    /\ hpc = "none"
    /\ env = [SOLCAST_API_KEY |-> FALSE, FOXESS_API_KEY |-> FALSE,
              SOLCAST_PV_SYSTEM_ID |-> FALSE]
    /\ request = [pv_system_id |-> FALSE, params |-> config]
    /\ db = "empty"
    /\ calls = <<>>
    /\ invoked = <<>>
    /\ solar_prices = EmptyFrame
    /\ response = NoResponse
    /\ stored = <<>>
    /\ schedule_df = <<>>
    /\ posted = <<>>

Init == InitState /\ (InitFrames \/ InitDispatch) /\ DirectCall

\* ------------------------------------------------------- merge and sort
\* DataFrame.merge(how="inner"): the rows of the left frame in order, each
\* paired with every matching row of the right frame in order.
MergeOnPeriodEnd(left, right) ==
    Concat([i \in DOMAIN left |->
        LET hits == SelectSeq(right, LAMBDA r : r.PeriodEnd = left[i].PeriodEnd)
        IN [j \in DOMAIN hits |->
               [PeriodEnd |-> left[i].PeriodEnd,
                PvEstimate |-> left[i].PvEstimate,
                price |-> hits[j].price]]])

MergeOnTimeOfDay(left, right) ==
    Concat([i \in DOMAIN left |->
        LET tod == time_of_day(left[i].PeriodEnd)
            hits == SelectSeq(right, LAMBDA r : r.time_of_day = tod)
        IN [j \in DOMAIN hits |->
               [PeriodEnd |-> left[i].PeriodEnd,
                PvEstimate |-> left[i].PvEstimate,
                price |-> left[i].price,
                time_of_day |-> tod,
                demand |-> hits[j].energy_kwh]]])

\* Variant of the sort that leaves the rows as joined.
Sortings_Unsorted(rows) == {rows}

\* sort_values("PeriodEnd") with the default, unstable sort: ascending, rows
\* of equal PeriodEnd in any order.
RECURSIVE Sortings(_)
Sortings(rows) ==
    IF rows = <<>> THEN {<<>>}
    ELSE LET m == MinOf({rows[i].PeriodEnd : i \in DOMAIN rows})
             first(r) == CHOOSE i \in DOMAIN rows :
                             /\ rows[i] = r
                             /\ \A j \in 1..i - 1 : rows[j] # r
         IN UNION {{<<r>> \o rest : rest \in Sortings(RemoveAt(rows, first(r)))} :
                      r \in {q \in Range(rows) : q.PeriodEnd = m}}

MergedColumns ==
    solar_df.columns \cup prices_df.columns \cup {"time_of_day"}
        \cup (IF "energy_kwh" \in demand_profile.columns THEN {"demand"} ELSE {})

MergedRows ==
    MergeOnTimeOfDay(MergeOnPeriodEnd(solar_df.rows, prices_df.rows),
                     demand_profile.rows)

\* ------------------------------------------------------------ normalise
\* Variant that requires the three columns whether present or not.
numeric_cols_All(columns) == {"price", "PvEstimate", "demand"}

\* Line 53: the required numeric columns are those present.
numeric_cols(columns) == {"price", "PvEstimate", "demand"} \cap columns

\* Variants of the mask: one that does not look at demand, one without the
\* isfinite pass.
Mask_IgnoreDemand(row, cols) ==
    \A c \in cols \ {"demand"} : notna(row[c]) /\ isfinite(row[c])
Mask_NotNaOnly(row, cols) == \A c \in cols : notna(row[c])

\* mask: notna().all(axis=1), then &= isfinite for every numeric column.
Mask(row, cols) ==
    /\ \A c \in cols : notna(row[c])
    /\ \A c \in cols : isfinite(row[c])

\* fillna(0.0) on PvEstimate, fillna(0.5) on demand (0.5 kWh = 5000 units).
FillNa(row, columns) ==
    [row EXCEPT
        !.PvEstimate = IF "PvEstimate" \in columns /\ ~notna(@) THEN Num(0) ELSE @,
        !.demand = IF "demand" \in columns /\ ~notna(@) THEN Num(5000) ELSE @]

\* Lines 44-70: join, sort, filter, default.  The filter keeps the relative
\* order of the rows it keeps, so the orders sort-then-filter can give are
\* the ascending orders of the kept rows.
Normalise ==
    /\ pc = "called"
    /\ LET cols == numeric_cols(MergedColumns)
           joined == MergedRows
           keep == SelectSeq(joined, LAMBDA r : Mask(r, cols))
       IN IF cols = {}
          THEN /\ pc' = "raised"
               /\ error' = "MissingNumericColumns"
               /\ UNCHANGED <<merged, dropped>>
          ELSE IF keep = <<>>
          THEN /\ pc' = "raised"
               /\ error' = "NoOverlappingData"
               /\ merged' = [columns |-> MergedColumns, rows |-> <<>>]
               /\ dropped' = Len(joined)
          ELSE /\ pc' = "normalised"
               /\ error' = "none"
               /\ \E kept \in Sortings(keep) :
                     merged' = [columns |-> MergedColumns,
                                rows |-> [i \in DOMAIN kept |->
                                             FillNa(kept[i], MergedColumns)]]
               /\ dropped' = Len(joined) - Len(keep)
    /\ UNCHANGED <<solar_df, prices_df, demand_profile, config, solves, status,
                   solution, result_df>>
    /\ UNCHANGED app_vars
    /\ UNCHANGED foxess_vars

\* ------------------------------------------------------------ LP model
\* Lines 72-84: the series and the derived scalars.
n == Len(merged.rows)
import_prices(t) == merged.rows[t].price.val * PenceToObj
solar_gen(t) == merged.rows[t].PvEstimate.val
demand(t) == merged.rows[t].demand.val
export_price_gbp == config.export_price_pence * PenceToObj

max_batt_charge_energy == config.charge_power_kw \div DtInv
max_batt_discharge_energy == config.discharge_power_kw \div DtInv
soc_min_kwh == (config.min_soc_pct * config.battery_capacity_kwh) \div 100
soc_max_kwh == (config.max_soc_pct * config.battery_capacity_kwh) \div 100
init_soc_kwh == (config.initial_soc_pct * config.battery_capacity_kwh) \div 100

\* Lines 87-90: the four flows of a period are nonneg.
NonNeg(x) == x >= 0
\* Variants of the SOC bounds with one side left out.
SocBounds_ok_NoFloor(s) == s <= soc_max_kwh
SocBounds_ok_NoCeiling(s) == s >= soc_min_kwh
\* Lines 104-105: SOC bounds.
SocBounds_ok(s) == s >= soc_min_kwh /\ s <= soc_max_kwh
\* Variant of the power limits without the discharge cap.
PowerLimits_NoDischargeCap(b_charge, b_discharge) ==
    b_charge <= max_batt_charge_energy
\* Lines 108-109: power limits.
PowerLimits(b_charge, b_discharge) ==
    /\ b_charge <= max_batt_charge_energy
    /\ b_discharge <= max_batt_discharge_energy
\* Variants of the grid limits: the two caps swapped, and no cap at all.
GridLimits_Swapped(g_import, g_export) ==
    /\ g_import <= max_batt_discharge_energy
    /\ g_export <= max_batt_charge_energy
GridLimits_Uncapped(g_import, g_export) == TRUE
\* Lines 112-113: grid limits, the battery's caps again.
GridLimits(g_import, g_export) ==
    /\ g_import <= max_batt_charge_energy
    /\ g_export <= max_batt_discharge_energy
\* Variant of the balance with the battery's two flows on the wrong sides.
BalancingExport_BatteryReversed(t, b_charge, b_discharge, g_import) ==
    solar_gen(t) + b_charge + g_import - b_discharge - demand(t)
\* Lines 116-118: energy balance, solved for the export:
\* solar + discharge + import - charge - export = demand.
BalancingExport(t, b_charge, b_discharge, g_import) ==
    solar_gen(t) + b_discharge + g_import - b_charge - demand(t)
\* Variant of the objective without the grid penalty.
PeriodCost_NoPenalty(t, g_import, g_export) ==
    g_import * import_prices(t) - g_export * export_price_gbp
\* Lines 121-123: the objective's term of one period.
PeriodCost(t, g_import, g_export) ==
    g_import * import_prices(t) - g_export * export_price_gbp
        + grid_penalty_weight * (g_import + g_export)

\* The LP is a min-cost flow: bus and battery nodes per period, the grid as
\* source and sink.  Its basic solutions are whole multiples of the common
\* divisor of its data, so the solver's answers are searched on that grid.
Quantum ==
    LET g == GCDSet({max_batt_charge_energy, max_batt_discharge_energy,
                     soc_min_kwh, soc_max_kwh, init_soc_kwh}
                    \cup {solar_gen(t) : t \in 1..n}
                    \cup {demand(t) : t \in 1..n})
    IN IF g = 0 THEN 1 ELSE g

\* Flow values tried: the grid up to one step past the larger cap.
Levels ==
    LET top == IF max_batt_charge_energy > max_batt_discharge_energy
               THEN max_batt_charge_energy ELSE max_batt_discharge_energy
    IN {j * Quantum : j \in 0..((top \div Quantum) + 1)}

\* The values of (b_charge, b_discharge) the variable domain and the power
\* limits admit, the same in every period.
BatteryChoices(levels) ==
    {b \in levels \X levels :
        NonNeg(b[1]) /\ NonNeg(b[2]) /\ PowerLimits(b[1], b[2])}

\* The values of the four flows one period admits on its own.
PeriodChoices(t, batt, levels) ==
    {[b_charge |-> x[1][1], b_discharge |-> x[1][2], g_import |-> x[2],
      g_export |-> BalancingExport(t, x[1][1], x[1][2], x[2])] :
         x \in {y \in batt \X levels :
                   LET e == BalancingExport(t, y[1][1], y[1][2], y[2])
                   IN NonNeg(y[2]) /\ NonNeg(e) /\ GridLimits(y[2], e)}}

RECURSIVE ChoicesFrom(_, _, _)
ChoicesFrom(t, batt, levels) ==
    IF t > n THEN <<>>
    ELSE <<PeriodChoices(t, batt, levels)>> \o ChoicesFrom(t + 1, batt, levels)

Net(c) == c.b_charge - c.b_discharge

\* The objective is a sum over the periods and only the net battery flow
\* links them (through the SOC), so the search goes over the net flows: a
\* period's net flow costs what its cheapest choice costs.
NetCost(t, nb, choices) ==
    MinOf({PeriodCost(t, c.g_import, c.g_export) :
              c \in {x \in choices : Net(x) = nb}})

\* Lines 96-105 over the horizon: the sequences of net battery flows that
\* keep every SOC in bounds, each with its SOC now and its objective value.
RECURSIVE NetSchedules(_, _, _)
NetSchedules(t, partial, choices) ==
    IF t > n \/ partial = {} THEN partial
    ELSE LET nets == {Net(c) : c \in choices[t]}
             cost == [nb \in nets |-> NetCost(t, nb, choices[t])]
         IN NetSchedules(t + 1,
                {[nets |-> Append(x[1].nets, x[2]), soc |-> x[1].soc + x[2],
                  cost |-> x[1].cost + cost[x[2]]] :
                     x \in {y \in partial \X nets :
                               SocBounds_ok(y[1].soc + y[2])}},
                choices)

\* The schedules with the given net flows whose every period is a cheapest
\* choice for its net flow, with the SOC of lines 99-101.
RECURSIVE Expand(_, _, _, _)
Expand(t, soc_prev, nets, choices) ==
    IF t > n THEN {<<>>}
    ELSE LET low == NetCost(t, nets[t], choices[t])
             soc == soc_prev + nets[t]
             rest == Expand(t + 1, soc, nets, choices)
         IN {<<[b_charge |-> c.b_charge, b_discharge |-> c.b_discharge,
                g_import |-> c.g_import, g_export |-> c.g_export,
                soc |-> soc]>> \o r :
                c \in {x \in choices[t] :
                          /\ Net(x) = nets[t]
                          /\ PeriodCost(t, x.g_import, x.g_export) = low},
                r \in rest}

\* Variant of the solver's answer that need not be a best schedule.
Minimisers_AnyFeasible(feasible, choices) ==
    UNION {Expand(1, init_soc_kwh, s.nets, choices) : s \in feasible}

\* Lines 125-126: problem.solve().  Any minimiser may come back.
Minimisers(feasible, choices) ==
    LET best == MinOf({s.cost : s \in feasible})
    IN UNION {Expand(1, init_soc_kwh, s.nets, choices) :
                 s \in {x \in feasible : x.cost = best}}

\* Variant of the status test that lets every status through.
IsOptimal_Lenient(st) == TRUE

\* Line 128: problem.status != cp.OPTIMAL, negated.
IsOptimal(st) == st = "optimal"

\* Lines 72-129.  A problem without a feasible point leaves the variables
\* without values.
Solve ==
    /\ pc = "normalised"
    /\ IF ~({"price", "PvEstimate", "demand"} \subseteq merged.columns)
       THEN /\ pc' = "raised"
            /\ error' = "KeyError"
            /\ UNCHANGED <<solves, status, solution>>
       ELSE LET levels == Levels
                choices == ChoicesFrom(1, BatteryChoices(levels), levels)
                feasible ==
                    NetSchedules(1, {[nets |-> <<>>, soc |-> init_soc_kwh,
                                      cost |-> 0]}, choices)
                st == IF feasible = {} THEN "infeasible" ELSE "optimal"
            IN /\ solves' = solves + 1
               /\ status' = st
               /\ IF ~IsOptimal(st)
                  THEN /\ pc' = "raised"
                       /\ error' = "OptimisationFailed"
                       /\ UNCHANGED solution
                  ELSE /\ solution' \in (IF feasible = {} THEN {<<>>}
                                        ELSE Minimisers(feasible, choices))
                       /\ pc' = "solved"
                       /\ UNCHANGED error
    /\ UNCHANGED <<solar_df, prices_df, demand_profile, config, merged, dropped,
                   result_df>>
    /\ UNCHANGED app_vars
    /\ UNCHANGED foxess_vars

\* ---------------------------------------------------------- result shaping
\* Variant of the positive part with the threshold included.
disp_pos_Inclusive(net) == IF net >= Eps THEN net ELSE 0

\* np.where(net > eps, net, 0.0) and np.where(net < -eps, -net, 0.0).
disp_pos(net) == IF net > Eps THEN net ELSE 0
disp_neg(net) == IF net < -Eps THEN -net ELSE 0

\* Variant of line 132: from the net grid flow as displayed.
timestep_cost_Displayed(t, x) ==
    disp_pos(x.g_import - x.g_export) * import_prices(t)
        - disp_neg(x.g_import - x.g_export) * export_price_gbp

\* Line 132, in objective units.
timestep_cost(t, x) ==
    x.g_import * import_prices(t) - x.g_export * export_price_gbp

\* Variant of line 133 that leaves the fraction as it is.
soc_pct_Fraction(x) == [num |-> x.soc, den |-> config.battery_capacity_kwh]

\* Line 133: soc / capacity * 100, kept as the exact quotient.
soc_pct(x) == [num |-> x.soc * 100, den |-> config.battery_capacity_kwh]

ResultRow(t) ==
    LET x == solution[t]
        net_batt == x.b_charge - x.b_discharge
        net_grid == x.g_import - x.g_export
    IN [PeriodEnd |-> merged.rows[t].PeriodEnd,
        demand |-> demand(t),
        solar |-> solar_gen(t),
        price |-> merged.rows[t].price.val,
        batt_charge_kwh |-> disp_pos(net_batt),
        batt_discharge_kwh |-> disp_neg(net_batt),
        grid_import_kwh |-> disp_pos(net_grid),
        grid_export_kwh |-> disp_neg(net_grid),
        soc_kwh |-> x.soc,
        soc_pct |-> soc_pct(x),
        net_battery_kwh |-> net_batt,
        net_grid_kwh |-> net_grid,
        cost_gbp |-> timestep_cost(t, x)]

\* Lines 131-159.
Shape ==
    /\ pc = "solved"
    /\ result_df' = [t \in 1..n |-> ResultRow(t)]
    /\ pc' = "returned"
    /\ UNCHANGED <<solar_df, prices_df, demand_profile, config, merged, dropped,
                   solves, status, solution, error>>
    /\ UNCHANGED app_vars
    /\ UNCHANGED foxess_vars

Next == Normalise \/ Solve \/ Shape

Spec == Init /\ [][Next]_vars

\* ----------------------------------------------- services, route and job
\* What a call gives: an exception with its type and message, or a frame;
\* and the database and external calls it made.
Raise(type, message, made) ==
    [raised |-> TRUE, type |-> type, error |-> message, frame |-> EmptyFrame,
     calls |-> made]
Return(frame, made) ==
    [raised |-> FALSE, type |-> "", error |-> "", frame |-> frame, calls |-> made]

\* Variant of the emptiness test that never sees an empty frame.
IsEmpty_Never(frame) == FALSE

\* DataFrame.empty.
IsEmpty(frame) == frame.rows = <<>>

\* data_provider.get_optimiser_inputs (lines 10-91): the function takes no
\* parameter, and its frame has the columns period_end, pv_estimate, price,
\* demand.
get_optimiser_inputs_parameters == {}
ProviderColumns == {"period_end", "pv_estimate", "price", "demand"}
ProviderRows ==
    <<[period_end |-> 1, pv_estimate |-> Num(0), price |-> Num(10),
       demand |-> Num(5000)]>>

get_optimiser_inputs(kwargs) ==
    IF ~(kwargs \subseteq get_optimiser_inputs_parameters)
    THEN Raise("TypeError", "unexpected keyword argument", <<>>)
    ELSE CASE db = "error" -> Raise("OperationalError", "database", <<"SessionLocal">>)
           [] db = "empty" ->
                Return([columns |-> ProviderColumns, rows |-> <<>>], <<"SessionLocal">>)
           [] db = "rows" ->
                Return([columns |-> ProviderColumns, rows |-> ProviderRows],
                       <<"SessionLocal">>)

\* The "try DB first" block of the three services (solcast lines 19-24,
\* foxess lines 31-36 and 59-67): the provider is called with days=...; a
\* non-empty frame is used if the columns asked of it exist; any exception is
\* swallowed and the service falls through to the external API.
DbFirst(columns) ==
    LET r == get_optimiser_inputs({"days"}) IN
    IF r.raised THEN [hit |-> FALSE, frame |-> EmptyFrame, calls |-> r.calls]
    ELSE IF IsEmpty(r.frame) \/ ~(columns \subseteq r.frame.columns)
    THEN [hit |-> FALSE, frame |-> EmptyFrame, calls |-> r.calls]
    ELSE [hit |-> TRUE, frame |-> r.frame, calls |-> r.calls]

\* What the external services may answer.
SolcastResponses ==
    {[ok |-> FALSE, hasPv |-> FALSE, rows |-> <<>>]} \cup
    {[ok |-> TRUE, hasPv |-> h, rows |-> r] :
        h \in BOOLEAN,
        r \in {<<>>,
               <<[PeriodEnd |-> 1, PvEstimate |-> 10000]>>,
               <<[PeriodEnd |-> 1, PvEstimate |-> 0],
                 [PeriodEnd |-> 49, PvEstimate |-> 10000]>>}}
\* "prices" may come as records (a list: no record, no column) or as columns
\* (a dict of lists: the columns are there even without a value).
AgileResponses ==
    {[ok |-> FALSE, base_time |-> NaN, columns |-> FALSE, prices |-> <<>>]} \cup
    {[ok |-> TRUE, base_time |-> b, columns |-> c, prices |-> p] :
        b \in {Num(0), NaN},
        c \in BOOLEAN,
        p \in {<<>>,
               <<[hour |-> 0, price |-> 10]>>,
               <<[hour |-> 0, price |-> 10], [hour |-> 24, price |-> 50]>>}}
HistoryResponses == {"error", "nothing usable", "a week of load"}

\* solcast.get_solar_forecast (lines 10-36); the keys are given or None.
get_solar_forecast(solcast_api_key, pv_system_id, resp) ==
    IF ~solcast_api_key \/ ~pv_system_id
    THEN Raise("ValueError", "Solcast API key and PV system ID must be provided",
               <<>>)
    ELSE LET d == DbFirst({"PeriodEnd", "PvEstimate"}) IN
         IF d.hit
         THEN Return([columns |-> {"PeriodEnd", "PvEstimate"},
                      rows |-> [i \in DOMAIN d.frame.rows |->
                                   [PeriodEnd |-> d.frame.rows[i].PeriodEnd,
                                    PvEstimate |-> d.frame.rows[i].PvEstimate]]],
                     d.calls)
         ELSE IF ~resp.ok
         THEN Raise("HTTPError", "solcast", d.calls \o <<"requests.get">>)
         ELSE Return([columns |-> {"PeriodEnd", "PvEstimate"},
                      rows |-> [i \in DOMAIN resp.rows |->
                                   [PeriodEnd |-> resp.rows[i].PeriodEnd,
                                    PvEstimate |->
                                        IF resp.hasPv
                                        THEN Num(resp.rows[i].PvEstimate \div 2)
                                        ELSE Num(0)]]],
                     d.calls \o <<"requests.get">>)

\* foxess.get_agile_prices (lines 25-51): a price at hour h ends half an
\* hour after base_time + h hours.
get_agile_prices(resp) ==
    LET d == DbFirst({"PeriodEnd", "price"}) IN
    IF d.hit
    THEN Return([columns |-> {"PeriodEnd", "price"},
                 rows |-> [i \in DOMAIN d.frame.rows |->
                              [PeriodEnd |-> d.frame.rows[i].PeriodEnd,
                               price |-> d.frame.rows[i].price]]],
                d.calls)
    ELSE LET made == d.calls \o <<"get_agile_times">> IN
         IF ~resp.ok THEN Raise("Exception", "foxess", made)
         ELSE IF ~isfinite(resp.base_time)
         THEN Raise("ValueError",
                    "Unable to parse agile base_time from FoxESS response", made)
         ELSE IF resp.prices = <<>> /\ ~resp.columns
         THEN Raise("KeyError", "hour", made)
         ELSE Return([columns |-> {"PeriodEnd", "price"},
                      rows |-> [i \in DOMAIN resp.prices |->
                                   [PeriodEnd |-> resp.base_time.val
                                                     + 2 * resp.prices[i].hour + 1,
                                    price |-> Num(resp.prices[i].price)]]],
                     made)

\* foxess.get_demand_forecast (lines 53-83).  Lines 70-83 turn a week of
\* load readings into the mean energy of each half hour of the day; here a
\* week of load gives one half hour's mean, and readings that all drop out
\* give an empty profile.
get_demand_forecast(resp) ==
    LET d == DbFirst({"PeriodEnd", "demand"}) IN
    IF d.hit
    THEN Return([columns |-> {"time_of_day", "energy_kwh"},
                 rows |-> [i \in DOMAIN d.frame.rows |->
                              [time_of_day |-> time_of_day(d.frame.rows[i].PeriodEnd),
                               energy_kwh |-> d.frame.rows[i].demand]]],
                d.calls)
    ELSE LET made == d.calls \o <<"get_history">> IN
         CASE resp = "error" -> Raise("Exception", "foxess", made)
           [] resp = "nothing usable" ->
                Return([columns |-> {"time_of_day", "energy_kwh"}, rows |-> <<>>],
                       made)
           [] resp = "a week of load" ->
                Return([columns |-> {"time_of_day", "energy_kwh"},
                        rows |-> <<[time_of_day |-> 1, energy_kwh |-> Num(5000)]>>],
                       made)

\* solar.merge(prices, on="PeriodEnd", how="left"), after time_of_day was
\* added to solar (forecast lines 38 and 43): a solar row without a price
\* keeps a null price.
LeftMergePrices(solar, prices) ==
    Concat([i \in DOMAIN solar |->
        LET hits == SelectSeq(prices, LAMBDA r : r.PeriodEnd = solar[i].PeriodEnd)
            row(price) == [PeriodEnd |-> solar[i].PeriodEnd,
                           PvEstimate |-> solar[i].PvEstimate,
                           time_of_day |-> time_of_day(solar[i].PeriodEnd),
                           price |-> price]
        IN IF hits = <<>> THEN <<row(NaN)>>
           ELSE [j \in DOMAIN hits |-> row(hits[j].price)]])

\* forecast.forecast_solar_and_prices (lines 21-44).
forecast_solar_and_prices(pv_system_id, solcast_resp, agile_resp) ==
    IF ~env.FOXESS_API_KEY
    THEN Raise("ValueError", "FoxESS API key required for prices", <<>>)
    ELSE LET solar == get_solar_forecast(env.SOLCAST_API_KEY, pv_system_id,
                                         solcast_resp)
             prices == get_agile_prices(agile_resp)
         IN IF solar.raised THEN solar
            ELSE IF prices.raised
            THEN Raise(prices.type, prices.error, solar.calls \o prices.calls)
            ELSE Return([columns |-> {"PeriodEnd", "PvEstimate", "time_of_day",
                                      "price"},
                         rows |-> LeftMergePrices(solar.frame.rows,
                                                  prices.frame.rows)],
                        solar.calls \o prices.calls)

\* forecast.forecast_demand_last_week_avg (lines 8-19), called without a key.
forecast_demand_last_week_avg(history_resp) ==
    IF ~env.FOXESS_API_KEY
    THEN Raise("ValueError", "FoxESS API key required for demand forecast", <<>>)
    ELSE get_demand_forecast(history_resp)

\* routes.optimise_mvp, line 85: except Exception.
Catches(type) == TRUE

\* Lines 85-86: the handler's answer to an exception; one that is not caught
\* leaves the framework to answer 500.
Failure(type, message) ==
    IF Catches(type)
    THEN [status_code |-> 400, detail |-> <<"Optimisation failed: ", message>>,
          status |-> "", schedule |-> <<>>]
    ELSE [status_code |-> 500, detail |-> <<"Internal Server Error">>,
          status |-> "", schedule |-> <<>>]

\* The request model's defaults (routes lines 16-24): 5 kWh, 50 %, 20-100 %,
\* 3 kW both ways, export 15 pence.
RequestDefaults ==
    [battery_capacity_kwh |-> 50000, initial_soc_pct |-> 50,
     min_soc_pct |-> 20, max_soc_pct |-> 100,
     charge_power_kw |-> 30000, discharge_power_kw |-> 30000,
     export_price_pence |-> 15]

\* The request model puts no constraint on its numbers: the defaults, the
\* SOC bounds swapped, a battery of no capacity.
Requests ==
    {[pv_system_id |-> i, params |-> q] :
        i \in BOOLEAN,
        q \in {RequestDefaults,
               [RequestDefaults EXCEPT !.min_soc_pct = 90, !.max_soc_pct = 20],
               [RequestDefaults EXCEPT !.battery_capacity_kwh = 0]}}

InitApp ==
    /\ handler \in {"optimise_mvp", "fetch_and_store_solcast",
                    "fetch_and_store_prices"}
    /\ hpc = "entered"
    /\ env \in [SOLCAST_API_KEY : BOOLEAN, FOXESS_API_KEY : BOOLEAN,
                SOLCAST_PV_SYSTEM_ID : BOOLEAN]
    /\ request \in Requests
    /\ db \in {"rows", "empty", "error"}
    /\ calls = <<>>
    /\ invoked = <<>>
    /\ solar_prices = EmptyFrame
    /\ response = NoResponse
    /\ stored = <<>>
    /\ schedule_df = <<>>
    /\ posted = <<>>
    /\ solar_df = EmptyFrame
    /\ prices_df = EmptyFrame
    /\ demand_profile = EmptyFrame
    /\ config = DefaultConfig
    /\ pc = "idle"
    /\ merged = EmptyFrame
    /\ dropped = 0
    /\ solves = 0
    /\ status = "none"
    /\ solution = <<>>
    /\ result_df = <<>>
    /\ error = "none"

optimiser_vars == <<solar_df, prices_df, demand_profile, config, pc, merged,
                    dropped, solves, status, solution, result_df, error>>

Outcome(fn, r) == [fn |-> fn, raised |-> r.raised, empty |-> r.frame.rows = <<>>]

\* routes.optimise_mvp, lines 38-44: the PV system id of the request or of
\* the environment, then the solar and price forecast.
RouteSolarPrices ==
    /\ handler = "optimise_mvp"
    /\ hpc = "entered"
    /\ \E solcast_resp \in SolcastResponses, agile_resp \in AgileResponses :
          LET pv_system_id == request.pv_system_id \/ env.SOLCAST_PV_SYSTEM_ID
              r == forecast_solar_and_prices(pv_system_id, solcast_resp,
                                             agile_resp)
          IN /\ calls' = calls \o r.calls
             /\ invoked' = Append(invoked, Outcome("forecast_solar_and_prices", r))
             /\ IF r.raised
                THEN /\ response' = Failure(r.type, r.error)
                     /\ hpc' = "responded"
                     /\ UNCHANGED solar_prices
                ELSE IF IsEmpty(r.frame)
                THEN /\ response' = Failure("ValueError",
                                            "Unable to fetch solar/price forecast")
                     /\ hpc' = "responded"
                     /\ UNCHANGED solar_prices
                ELSE /\ solar_prices' = r.frame
                     /\ hpc' = "solar_prices"
                     /\ UNCHANGED response
    /\ UNCHANGED <<handler, env, request, db, stored>>
    /\ UNCHANGED optimiser_vars
    /\ UNCHANGED foxess_vars

\* Lines 46-64: the demand profile, then the call of the optimiser with the
\* forecast's columns and the request's parameters.
RouteDemand ==
    /\ handler = "optimise_mvp"
    /\ hpc = "solar_prices"
    /\ \E history_resp \in HistoryResponses :
          LET r == forecast_demand_last_week_avg(history_resp) IN
          /\ calls' = calls \o r.calls
          /\ IF r.raised \/ IsEmpty(r.frame)
             THEN /\ response' =
                        IF r.raised THEN Failure(r.type, r.error)
                        ELSE Failure("ValueError",
                                     "Unable to fetch demand forecast from FoxESS")
                  /\ hpc' = "responded"
                  /\ invoked' = Append(invoked,
                                       Outcome("forecast_demand_last_week_avg", r))
                  /\ UNCHANGED optimiser_vars
             ELSE /\ solar_df' =
                        SolarFrame(TRUE,
                            [i \in DOMAIN solar_prices.rows |->
                                [PeriodEnd |-> solar_prices.rows[i].PeriodEnd,
                                 PvEstimate |-> solar_prices.rows[i].PvEstimate]])
                  /\ prices_df' =
                        PricesFrame(TRUE,
                            [i \in DOMAIN solar_prices.rows |->
                                [PeriodEnd |-> solar_prices.rows[i].PeriodEnd,
                                 price |-> solar_prices.rows[i].price]])
                  /\ demand_profile' = r.frame
                  /\ config' = request.params
                  /\ pc' = "called"
                  /\ hpc' = "optimising"
                  /\ invoked' = invoked \o
                        <<Outcome("forecast_demand_last_week_avg", r),
                          [fn |-> "mvp_cost_minimiser", raised |-> FALSE,
                           empty |-> FALSE]>>
                  /\ UNCHANGED <<merged, dropped, solves, status, solution,
                                 result_df, error, response>>
    /\ UNCHANGED <<handler, env, request, db, solar_prices, stored>>
    /\ UNCHANGED foxess_vars

\* Lines 73-84: the handler returns the plan as a dict, which the framework
\* renders as JSON after the handler, and so outside its try block; JSON has
\* no NaN or infinity, and soc_pct (optimiser line 133) is a division by the
\* capacity.
JsonCompliant(schedule) ==
    \A t \in DOMAIN schedule : schedule[t].soc_pct.den # 0

\* Lines 66-86: the plan with its totals, or the failure of the optimiser.
RouteRespond ==
    /\ handler = "optimise_mvp"
    /\ hpc = "optimising"
    /\ pc \in {"returned", "raised"}
    /\ response' =
          IF pc = "returned"
          THEN IF JsonCompliant(result_df)
               THEN [status_code |-> 200, detail |-> <<>>, status |-> "success",
                     schedule |-> result_df]
               ELSE [status_code |-> 500, detail |-> <<"Internal Server Error">>,
                     status |-> "", schedule |-> <<>>]
          ELSE Failure(IF error = "KeyError" THEN "KeyError" ELSE "ValueError",
                       error)
    /\ hpc' = "responded"
    /\ UNCHANGED <<handler, env, request, db, calls, invoked, solar_prices,
                   stored>>
    /\ UNCHANGED optimiser_vars
    /\ UNCHANGED foxess_vars

\* The session operations of scheduler._store_forecast.  "what" is 0 for the
\* run and i for the interval of row i.
SessionOp(op, what) == [op |-> op, what |-> what]

\* Variant of the try block that commits after every interval.
SessionBody_CommitEachRow(frame) ==
    <<SessionOp("add", 0), SessionOp("flush", 0)>>
        \o Concat([i \in DOMAIN frame.rows |->
                      <<SessionOp("add", i), SessionOp("commit", 0)>>])

\* Lines 29-49, the try block: the run is added and flushed, one interval
\* is added per row, and one commit ends it.  (A row is skipped only if its
\* PeriodEnd is missing and cannot be parsed; the jobs' frames have it.)
SessionBody(frame) ==
    <<SessionOp("add", 0), SessionOp("flush", 0)>>
        \o [i \in DOMAIN frame.rows |-> SessionOp("add", i)]
        \o <<SessionOp("commit", 0)>>

\* The operations that go to the database, and so can fail: their places
\* in the body, in order.
RoundTrips(body) ==
    SelectSeq([i \in DOMAIN body |-> i],
              LAMBDA i : body[i].op \in {"flush", "commit"})

\* Which round trip fails: none, the first, the second.
StoreFaults == 0..2

\* What a transaction leaves in the database: the objects added before a
\* commit that succeeded; what is pending at the rollback is discarded.
RECURSIVE Committed(_, _, _, _)
Committed(body, i, failAt, pending) ==
    IF i > Len(body) \/ i = failAt THEN <<>>
    ELSE CASE body[i].op = "add" ->
                Committed(body, i + 1, failAt, Append(pending, body[i].what))
           [] body[i].op = "commit" ->
                pending \o Committed(body, i + 1, failAt, <<>>)
           [] OTHER -> Committed(body, i + 1, failAt, pending)

\* scheduler._store_forecast (lines 21-54): the session is opened, the body
\* runs up to the operation that fails, an exception rolls back and is
\* raised again, and the session is closed in either case.
StoreForecast(frame, fault) ==
    LET body == SessionBody(frame)
        trips == RoundTrips(body)
        failAt == IF fault \in DOMAIN trips THEN trips[fault] ELSE 0
        done == IF failAt = 0 THEN body ELSE SubSeq(body, 1, failAt)
        kept == Committed(body, 1, failAt, <<>>)
    IN [raised |-> failAt # 0,
        calls |-> <<"SessionLocal">>
                     \o [i \in DOMAIN done |-> "session." \o done[i].op]
                     \o (IF failAt # 0 THEN <<"session.rollback">> ELSE <<>>)
                     \o <<"session.close">>,
        runs |-> IF kept = <<>> THEN <<>>
                 ELSE <<[intervals |-> Cardinality(Range(kept) \ {0})]>>]

\* scheduler.fetch_and_store_solcast (lines 57-66): the service is called
\* with neither key nor PV system id.
FetchAndStoreSolcast ==
    /\ handler = "fetch_and_store_solcast"
    /\ hpc = "entered"
    /\ \E solcast_resp \in SolcastResponses, fault \in StoreFaults :
          LET r == get_solar_forecast(FALSE, FALSE, solcast_resp)
              s == StoreForecast(r.frame, fault)
          IN IF r.raised
             THEN /\ hpc' = "raised"
                  /\ calls' = calls \o r.calls
                  /\ UNCHANGED stored
             ELSE IF IsEmpty(r.frame)
             THEN /\ hpc' = "returned"
                  /\ calls' = calls \o r.calls
                  /\ UNCHANGED stored
             ELSE /\ hpc' = IF s.raised THEN "raised" ELSE "returned"
                  /\ calls' = calls \o r.calls \o s.calls
                  /\ stored' = stored \o s.runs
    /\ UNCHANGED <<handler, env, request, db, invoked, solar_prices, response>>
    /\ UNCHANGED optimiser_vars
    /\ UNCHANGED foxess_vars

\* Variant of the test of lines 72 and 74 that takes every answer as empty.
NoneOrEmpty_Always(frame) == TRUE

\* Lines 72 and 74: prices is None or prices.empty (the service gives a
\* frame or raises, never None).
NoneOrEmpty(frame) == IsEmpty(frame)

\* A call of the job with its outcome and the rows of its frame.
JobOutcome(fn, raised, frame) ==
    [fn |-> fn, raised |-> raised, empty |-> frame.rows = <<>>,
     rows |-> Len(frame.rows)]

\* scheduler.fetch_and_store_prices (lines 69-79): the prices are asked for,
\* once more if the answer is empty, and stored if an answer has rows.
FetchAndStorePrices ==
    /\ handler = "fetch_and_store_prices"
    /\ hpc = "entered"
    /\ \E first \in AgileResponses, second \in AgileResponses,
          fault \in StoreFaults :
          LET r1 == get_agile_prices(first)
              again == ~r1.raised /\ NoneOrEmpty(r1.frame)
              r2 == get_agile_prices(second)
              prices == IF again THEN r2 ELSE r1
              asked == <<JobOutcome("get_agile_prices", r1.raised, r1.frame)>>
                          \o (IF again
                              THEN <<JobOutcome("get_agile_prices", r2.raised,
                                                r2.frame)>>
                              ELSE <<>>)
              made == r1.calls \o (IF again THEN r2.calls ELSE <<>>)
              s == StoreForecast(prices.frame, fault)
          IN IF prices.raised
             THEN /\ hpc' = "raised"
                  /\ calls' = calls \o made
                  /\ invoked' = invoked \o asked
                  /\ UNCHANGED stored
             ELSE IF NoneOrEmpty(prices.frame)
             THEN /\ hpc' = "returned"
                  /\ calls' = calls \o made
                  /\ invoked' = invoked \o asked
                  /\ UNCHANGED stored
             ELSE /\ hpc' = IF s.raised THEN "raised" ELSE "returned"
                  /\ calls' = calls \o made \o s.calls
                  /\ invoked' = invoked \o asked
                        \o <<JobOutcome("_store_forecast", s.raised,
                                         prices.frame)>>
                  /\ stored' = stored \o s.runs
    /\ UNCHANGED <<handler, env, request, db, solar_prices, response>>
    /\ UNCHANGED optimiser_vars
    /\ UNCHANGED foxess_vars

NextApp ==
    \/ RouteSolarPrices
    \/ RouteDemand
    \/ Normalise
    \/ Solve
    \/ Shape
    \/ RouteRespond
    \/ FetchAndStoreSolcast
    \/ FetchAndStorePrices

SpecApp == InitApp /\ [][NextApp]_vars

\* ------------------------------------------------------ FoxESS schedule
\* FOXESS_WORK_MODE_SELF_USE, _CHARGE, _DISCHARGE (foxess lines 11-13).
FOXESS_WORK_MODE_SELF_USE == 0
FOXESS_WORK_MODE_CHARGE == 1
FOXESS_WORK_MODE_DISCHARGE == 2
\* 0.05 kWh (lines 93 and 95), in energy units.
WorkModeThreshold == 500
\* timedelta(minutes=30) (line 89): the minutes of a period.
SlotMinutes == 30

\* strftime("%H:%M") of the time that many minutes after a midnight: two
\* digits, a colon, two digits.
Strftime(minutes) ==
    LET h == (minutes % (24 * 60)) \div 60
        m == (minutes % (24 * 60)) % 60
    IN <<h \div 10, h % 10, ":", m \div 10, m % 10>>

\* map(int, s[-5:].split(":")) (lines 110-111).
ParseHM(s) == [h |-> 10 * s[1] + s[2], m |-> 10 * s[4] + s[5]]

\* Variant of the mode with the thresholds included.
WorkModeOf_Inclusive(net_battery) ==
    IF net_battery >= WorkModeThreshold THEN FOXESS_WORK_MODE_CHARGE
    ELSE IF net_battery <= -WorkModeThreshold THEN FOXESS_WORK_MODE_DISCHARGE
    ELSE FOXESS_WORK_MODE_SELF_USE

\* Lines 92-98.
WorkModeOf(net_battery) ==
    IF net_battery > WorkModeThreshold THEN FOXESS_WORK_MODE_CHARGE
    ELSE IF net_battery < -WorkModeThreshold THEN FOXESS_WORK_MODE_DISCHARGE
    ELSE FOXESS_WORK_MODE_SELF_USE

\* foxess.create_foxess_schedule_df (lines 85-100); PeriodEnd counts half
\* hours.
create_foxess_schedule_df(optimiser_result_df) ==
    [i \in DOMAIN optimiser_result_df |->
        LET end_time == optimiser_result_df[i].PeriodEnd * SlotMinutes
            start_time == end_time - SlotMinutes
        IN [start |-> Strftime(start_time), end |-> Strftime(end_time),
            WorkMode |-> WorkModeOf(optimiser_result_df[i].net_battery_kwh)]]

\* Variant of the midnight break that never breaks.
midnight_break_Never(row) == FALSE

\* Line 105: schedule_df["start"] == '00:00'.
midnight_break(row) == row.start = Strftime(0)

\* Lines 104-106: a row opens a group if its mode differs from the row
\* before (the first row always does) or it starts at midnight; grp counts
\* the groups opened so far.
RECURSIVE grp(_, _)
grp(df, i) ==
    IF i = 0 THEN 0
    ELSE grp(df, i - 1)
            + (IF \/ i = 1
                  \/ df[i].WorkMode # df[i - 1].WorkMode
                  \/ midnight_break(df[i])
               THEN 1 ELSE 0)

\* Lines 112-116: the minute before the end.
EndBefore(end) ==
    IF end.m = 0 THEN [h |-> (end.h - 1 + 24) % 24, m |-> 59]
    ELSE [h |-> end.h, m |-> (end.m - 1) % 60]

\* Lines 107-130: one group per value of grp, in order, from its first
\* row's start to the minute before its last row's end.
ScheduleGroups(df, min_soc, max_soc, fd_pwr) ==
    LET g == [i \in DOMAIN df |-> grp(df, i)]
        count == IF df = <<>> THEN 0 ELSE g[Len(df)]
    IN [k \in 1..count |->
           LET members == {i \in DOMAIN df : g[i] = k}
               first == CHOOSE i \in members : \A j \in members : i <= j
               last == CHOOSE i \in members : \A j \in members : i >= j
               start == ParseHM(df[first].start)
               end == EndBefore(ParseHM(df[last].end))
           IN [enable |-> 1, startHour |-> start.h, startMinute |-> start.m,
               endHour |-> end.h, endMinute |-> end.m,
               workMode |-> df[first].WorkMode, minSocOnGrid |-> min_soc,
               fdSoc |-> min_soc, fdPwr |-> fd_pwr, maxSoc |-> max_soc]]

\* The plans handed over: up to MaxPlan periods in ascending order, around
\* midnight, with net battery flows at and next to the thresholds.
PlanSlots == {1, 2, 47, 48, 49}
PlanNets == {-501, -500, 0, 500, 501}
Plans ==
    {q \in SeqUpTo([PeriodEnd : PlanSlots, net_battery_kwh : PlanNets], MaxPlan) :
        /\ Len(q) >= 1
        /\ \A i \in 1..Len(q) - 1 : q[i].PeriodEnd <= q[i + 1].PeriodEnd}

InitFox ==
    /\ handler = "send_schedule"
    /\ hpc = "entered"
    /\ result_df \in Plans
    /\ schedule_df = <<>>
    /\ posted = <<>>
    /\ env = [SOLCAST_API_KEY |-> FALSE, FOXESS_API_KEY |-> TRUE,
              SOLCAST_PV_SYSTEM_ID |-> FALSE]
    /\ request = [pv_system_id |-> FALSE, params |-> DefaultConfig]
    /\ db = "empty"
    /\ calls = <<>>
    /\ invoked = <<>>
    /\ solar_prices = EmptyFrame
    /\ response = NoResponse
    /\ stored = <<>>
    /\ solar_df = EmptyFrame
    /\ prices_df = EmptyFrame
    /\ demand_profile = EmptyFrame
    /\ config = DefaultConfig
    /\ pc = "returned"
    /\ merged = EmptyFrame
    /\ dropped = 0
    /\ solves = 1
    /\ status = "optimal"
    /\ solution = <<>>
    /\ error = "none"

\* The plan is turned into a schedule.
CreateSchedule ==
    /\ handler = "send_schedule"
    /\ hpc = "entered"
    /\ schedule_df' = create_foxess_schedule_df(result_df)
    /\ hpc' = "scheduled"
    /\ UNCHANGED <<handler, env, request, db, calls, invoked, solar_prices,
                   response, stored, posted>>
    /\ UNCHANGED optimiser_vars

\* foxess.send_schedule (lines 102-134) with its default SOC limits and
\* power: the frame gets its grp column and one request carries the groups.
SendSchedule ==
    /\ handler = "send_schedule"
    /\ hpc = "scheduled"
    /\ schedule_df' = [i \in DOMAIN schedule_df |->
                          [start |-> schedule_df[i].start,
                           end |-> schedule_df[i].end,
                           WorkMode |-> schedule_df[i].WorkMode,
                           grp |-> grp(schedule_df, i)]]
    /\ posted' = Append(posted,
                        [path |-> "/op/v1/device/scheduler/enable",
                         deviceSN |-> "SN",
                         groups |-> ScheduleGroups(schedule_df, 20, 90, 3000)])
    /\ calls' = Append(calls, "signed_post")
    /\ hpc' = "sent"
    /\ UNCHANGED <<handler, env, request, db, invoked, solar_prices, response,
                   stored>>
    /\ UNCHANGED optimiser_vars

NextFox == CreateSchedule \/ SendSchedule

SpecFox == InitFox /\ [][NextFox]_vars

\* ------------------------------------------------------------ properties
Returned == pc = "returned"
Periods == DOMAIN result_df

\* numpy.testing.assert_allclose(actual, desired, rtol=1e-5, atol): in energy
\* units, |actual - desired| <= atol + |desired| / 100000, atol = 1e-6 kWh
\* being 1/100 of a unit; the difference is a whole number of units.
AllClose(actual, desired) == Abs(actual - desired) <= (1000 + Abs(desired)) \div 100000
AllCloseRel(actual, desired) == Abs(actual - desired) <= Abs(desired) \div 100000

\* x <= y + 1e-6 kWh, the tolerance being 1/100 of a unit.
LeqTol(x, y) == 100 * x <= 100 * y + 1

\* A joined row with every required numeric column that is present finite.
RowComplete(r) ==
    \A c \in {"price", "PvEstimate", "demand"} \cap MergedColumns : r[c].kind = "num"
Count(rows, r) == Cardinality({i \in DOMAIN rows : rows[i] = r})
CompleteRows == SelectSeq(MergedRows, RowComplete)

\* C1: in every returned plan every soc_kwh lies within
\* [min_soc_pct/100*capacity - 1e-6, max_soc_pct/100*capacity + 1e-6].
C1_SocWithinBounds ==
    Returned =>
        \A t \in Periods :
            /\ LeqTol((config.min_soc_pct * config.battery_capacity_kwh) \div 100,
                      result_df[t].soc_kwh)
            /\ LeqTol(result_df[t].soc_kwh,
                      (config.max_soc_pct * config.battery_capacity_kwh) \div 100)

\* A returned two-period plan that ends on the lower SOC bound after
\* discharging in both periods.
C1_Witness ==
    /\ Returned
    /\ Len(result_df) = 2
    /\ result_df[1].net_battery_kwh < 0
    /\ result_df[2].net_battery_kwh < 0
    /\ result_df[2].soc_kwh = soc_min_kwh

\* C2: in every returned plan the reported columns balance in every period:
\* solar + batt_discharge_kwh + grid_import_kwh is close (rtol 1e-5, atol
\* 1e-6) to demand + batt_charge_kwh + grid_export_kwh.
C2_ReportedEnergyBalance ==
    Returned =>
        \A t \in Periods :
            AllClose(result_df[t].solar + result_df[t].batt_discharge_kwh
                         + result_df[t].grid_import_kwh,
                     result_df[t].demand + result_df[t].batt_charge_kwh
                         + result_df[t].grid_export_kwh)

\* C3: in every returned plan soc_kwh follows the reported battery columns:
\* soc_kwh[0] is close (rtol 1e-5) to initial_soc_pct/100*capacity
\* + batt_charge_kwh[0] - batt_discharge_kwh[0], and soc_kwh[t] to
\* soc_kwh[t-1] + batt_charge_kwh[t] - batt_discharge_kwh[t].
C3_ReportedSocContinuity ==
    Returned =>
        \A t \in Periods :
            AllCloseRel(result_df[t].soc_kwh,
                (IF t = 1
                 THEN (config.initial_soc_pct * config.battery_capacity_kwh) \div 100
                 ELSE result_df[t - 1].soc_kwh)
                + result_df[t].batt_charge_kwh - result_df[t].batt_discharge_kwh)

\* C4: in every returned plan batt_charge_kwh <= charge_power_kw*0.5 + 1e-6
\* and batt_discharge_kwh <= discharge_power_kw*0.5 + 1e-6 in every period,
\* whatever the spacing of the timestamps.
C4_PowerCap ==
    Returned =>
        \A t \in Periods :
            /\ LeqTol(result_df[t].batt_charge_kwh, config.charge_power_kw \div 2)
            /\ LeqTol(result_df[t].batt_discharge_kwh,
                      config.discharge_power_kw \div 2)

\* A returned plan whose periods are a day apart and that discharges at the
\* cap in the second one.
C4_Witness ==
    /\ Returned
    /\ Len(result_df) = 2
    /\ result_df[2].PeriodEnd - result_df[1].PeriodEnd > 1
    /\ result_df[2].batt_discharge_kwh = config.discharge_power_kw \div 2
    /\ result_df[2].batt_discharge_kwh > 0

\* The two-period scenario: no PV, demand 0.5 kWh twice, prices 10 and 50
\* pence, 15 kWh, 50 % initial, bounds 20-90 %, 3 kW both ways, export 15.
CheapThenDear ==
    /\ config = DefaultConfig
    /\ Len(result_df) = 2
    /\ \A t \in Periods : result_df[t].solar = 0 /\ result_df[t].demand = 5000
    /\ result_df[1].price = 10
    /\ result_df[2].price = 50

\* C5: in the two-period scenario the returned plan charges the battery in
\* period 0: net_battery_kwh[0] > 0.
C5_ChargesInCheapPeriod ==
    (Returned /\ CheapThenDear) => result_df[1].net_battery_kwh > 0

InvertedBounds == config.min_soc_pct = 90 /\ config.max_soc_pct = 20

\* C6: with min_soc_pct = 90 and max_soc_pct = 20 no plan is ever returned,
\* and a series that reaches the solver ends in the optimisation failure.
C6_InvertedBoundsFail ==
    InvertedBounds =>
        /\ pc \notin {"solved", "returned"}
        /\ result_df = <<>>
        /\ solves > 0 =>
              pc = "raised" /\ error = "OptimisationFailed" /\ status = "infeasible"

\* A two-period series with inverted bounds on which the solver has failed.
C6_Witness ==
    /\ InvertedBounds
    /\ Len(merged.rows) = 2
    /\ pc = "raised"
    /\ error = "OptimisationFailed"

AllDemandNull ==
    /\ "demand" \in MergedColumns
    /\ LET joined == MergedRows IN
       \A i \in DOMAIN joined : joined[i].demand = NaN

\* C7: if every row of the merged series has a null demand, the call raises
\* the no-data error in normalisation and the solver is never invoked.
C7_AllNullDemandRaises ==
    (AllDemandNull /\ pc # "called") =>
        /\ pc = "raised"
        /\ error = "NoOverlappingData"
        /\ solves = 0
        /\ status = "none"

\* Two joined rows, each with a finite price and PV and a null demand, after
\* the call has raised.
C7_Witness ==
    /\ AllDemandNull
    /\ Len(MergedRows) = 2
    /\ \A i \in DOMAIN MergedRows :
          isfinite(MergedRows[i].price) /\ isfinite(MergedRows[i].PvEstimate)
    /\ pc = "raised"

\* C8: the rows that reach the LP are exactly the joined rows whose every
\* present required column is non-null and finite; the others are dropped
\* and counted, and the call fails for them only when none remains.
C8_KeptIffFinite ==
    LET joined == MergedRows
        kept == merged.rows
    IN /\ pc \in {"normalised", "solved", "returned"} =>
             /\ \A r \in Range(joined) \cup Range(kept) :
                   Count(kept, r) = (IF RowComplete(r) THEN Count(joined, r) ELSE 0)
             /\ dropped = Len(joined) - Len(kept)
             /\ kept # <<>>
       /\ (pc = "raised" /\ error = "NoOverlappingData") =>
             SelectSeq(joined, RowComplete) = <<>>

\* A normalised series that kept a row and dropped a row with an infinite
\* price and a row with a null value.
C8_Witness ==
    /\ pc = "normalised"
    /\ dropped >= 2
    /\ \E i \in DOMAIN MergedRows : MergedRows[i].price = NegInf
    /\ \E i \in DOMAIN MergedRows :
          MergedRows[i].price # NegInf
          /\ (MergedRows[i].demand = NaN \/ MergedRows[i].PvEstimate = NaN)

\* C9: a returned plan has exactly one record per kept period, in ascending
\* timestamp order, whatever the order of the input rows.
C9_FullAscendingPlan ==
    Returned =>
        LET complete == CompleteRows IN
        /\ Len(result_df) = Len(complete)
        /\ \A i \in DOMAIN complete :
              Cardinality({t \in Periods :
                              result_df[t].PeriodEnd = complete[i].PeriodEnd})
                  = Cardinality({j \in DOMAIN complete :
                              complete[j].PeriodEnd = complete[i].PeriodEnd})
        /\ \A t \in Periods :
              t > 1 => result_df[t - 1].PeriodEnd <= result_df[t].PeriodEnd

\* A returned two-period plan whose solar rows came in descending order.
C9_Witness ==
    /\ Returned
    /\ Len(result_df) = 2
    /\ Len(solar_df.rows) = 2
    /\ solar_df.rows[1].PeriodEnd > solar_df.rows[2].PeriodEnd
    /\ result_df[1].PeriodEnd < result_df[2].PeriodEnd

\* C10: the reported battery fields are the eps-decomposition of
\* net_batt = charge - discharge (charge = net if net > eps, discharge =
\* -net if net < -eps, else 0), the grid fields likewise of net_grid, so at
\* most one field of each pair is nonzero.
C10_EpsilonDecomposition ==
    Returned =>
        \A t \in Periods :
            LET r == result_df[t]
                net_batt == solution[t].b_charge - solution[t].b_discharge
                net_grid == solution[t].g_import - solution[t].g_export
            IN /\ net_batt > Eps => r.batt_charge_kwh = net_batt /\ r.batt_discharge_kwh = 0
               /\ net_batt < -Eps => r.batt_discharge_kwh = -net_batt /\ r.batt_charge_kwh = 0
               /\ (net_batt <= Eps /\ net_batt >= -Eps) =>
                     r.batt_charge_kwh = 0 /\ r.batt_discharge_kwh = 0
               /\ net_grid > Eps => r.grid_import_kwh = net_grid /\ r.grid_export_kwh = 0
               /\ net_grid < -Eps => r.grid_export_kwh = -net_grid /\ r.grid_import_kwh = 0
               /\ (net_grid <= Eps /\ net_grid >= -Eps) =>
                     r.grid_import_kwh = 0 /\ r.grid_export_kwh = 0
               /\ r.batt_charge_kwh = 0 \/ r.batt_discharge_kwh = 0
               /\ r.grid_import_kwh = 0 \/ r.grid_export_kwh = 0

\* A returned plan with a net battery flow of exactly eps, reported as
\* nothing, and a net grid flow beyond eps, reported whole, from a solution
\* that charges and discharges at once.
C10_Witness ==
    /\ Returned
    /\ \E t \in Periods :
          /\ solution[t].b_charge - solution[t].b_discharge = Eps
          /\ solution[t].b_charge > 0
          /\ solution[t].b_discharge > 0
          /\ result_df[t].batt_charge_kwh = 0
    /\ \E t \in Periods : result_df[t].grid_export_kwh > Eps

\* C11: cost_gbp of every period is the raw solved import times the import
\* price minus the raw solved export times the export price; it is not
\* computed from the thresholded display columns and carries no penalty.
C11_CostFromRawFlows ==
    Returned =>
        \A t \in Periods :
            result_df[t].cost_gbp =
                solution[t].g_import * result_df[t].price * PenceToObj
                    - solution[t].g_export * config.export_price_pence * PenceToObj

\* A returned plan with a period whose raw import is positive and within
\* eps, displayed as no import, yet costed, and a period that imports and
\* exports at once.
C11_Witness ==
    /\ Returned
    /\ \E t \in Periods :
          /\ solution[t].g_import > 0
          /\ result_df[t].grid_import_kwh = 0
          /\ result_df[t].grid_export_kwh = 0
          /\ result_df[t].cost_gbp > 0
    /\ \E t \in Periods : solution[t].g_import > 0 /\ solution[t].g_export > 0

\* The constraints of the LP, read off a schedule.
Feasible(x) ==
    /\ Len(x) = n
    /\ \A t \in 1..n :
          /\ NonNeg(x[t].b_charge) /\ NonNeg(x[t].b_discharge)
          /\ NonNeg(x[t].g_import) /\ NonNeg(x[t].g_export)
          /\ x[t].soc = (IF t = 1 THEN init_soc_kwh ELSE x[t - 1].soc)
                           + x[t].b_charge - x[t].b_discharge
          /\ SocBounds_ok(x[t].soc)
          /\ PowerLimits(x[t].b_charge, x[t].b_discharge)
          /\ GridLimits(x[t].g_import, x[t].g_export)
          /\ x[t].g_export =
                 BalancingExport(t, x[t].b_charge, x[t].b_discharge, x[t].g_import)

MaxPrice == CHOOSE p \in {merged.rows[t].price.val : t \in 1..n} :
                \A t \in 1..n : merged.rows[t].price.val <= p

\* Ten times the objective's term of one period, with the foresight term
\* -w * charge * (max price - price) for w = w100 / 100.
Term10(t, c, w100, max_price) ==
    10 * PeriodCost(t, c.g_import, c.g_export)
        - w100 * c.b_charge * (max_price - merged.rows[t].price.val)

Objective10(x, w100) ==
    LET max_price == MaxPrice
        RECURSIVE Sum(_)
        Sum(t) == IF t > n THEN 0
                  ELSE Term10(t, x[t], w100, max_price) + Sum(t + 1)
    IN Sum(1)

\* The grid flows one period admits for a battery choice b: the objective is
\* linear in the import, so only the two ends of its range of imports matter.
CornerFlows(t, b) ==
    LET surplus == solar_gen(t) + b[2] - b[1] - demand(t)
        lo == IF surplus < 0 THEN -surplus ELSE 0
        room == max_batt_discharge_energy - surplus
        hi == IF room < max_batt_charge_energy THEN room
              ELSE max_batt_charge_energy
    IN IF lo > hi THEN {}
       ELSE {[b_charge |-> b[1], b_discharge |-> b[2], g_import |-> g,
              g_export |-> BalancingExport(t, b[1], b[2], g)] : g \in {lo, hi}}

\* The least objective over the schedules satisfying the constraints: the
\* set holding it, or the empty set where no schedule exists.  Period by
\* period, the cheapest way to reach each SOC.
LeastObjective10(w100) ==
    LET batt == BatteryChoices(Levels)
        max_price == MaxPrice
        RECURSIVE Reach(_, _)
        Reach(t, frontier) ==
            IF t > n \/ frontier = {} THEN frontier
            ELSE LET flows == UNION {{<<Net(c), Term10(t, c, w100, max_price)>> :
                                         c \in CornerFlows(t, b)} : b \in batt}
                     steps == {p \in flows :
                                  \A q \in flows : q[1] = p[1] => p[2] <= q[2]}
                     next == {<<f[1] + st[1], f[2] + st[2]>> :
                                 f \in frontier,
                                 st \in steps}
                     inside == {p \in next : SocBounds_ok(p[1])}
                 IN Reach(t + 1,
                          {p \in inside :
                              \A q \in inside : q[1] = p[1] => p[2] <= q[2]})
        last == Reach(1, {<<init_soc_kwh, 0>>})
    IN IF last = {} THEN {} ELSE {MinOf({p[2] : p \in last})}

C14_RequiredColumns ==
    LET present == {"price", "PvEstimate", "demand"} \cap MergedColumns IN
    /\ (present = {} /\ pc # "called") =>
          /\ pc = "raised"
          /\ error = "MissingNumericColumns"
          /\ solves = 0
    /\ present # {} =>
          /\ error # "MissingNumericColumns"
          /\ pc \in {"normalised", "solved", "returned"} =>
                LET joined == MergedRows IN
                /\ \A i \in DOMAIN merged.rows :
                      \A c \in present : merged.rows[i][c].kind = "num"
                /\ Len(merged.rows) =
                      Cardinality({i \in DOMAIN joined :
                                      \A c \in present : joined[i][c].kind = "num"})

\* A call without any of the three columns that has raised, its frames
\* holding rows that join.
C14_Witness ==
    /\ {"price", "PvEstimate", "demand"} \cap MergedColumns = {}
    /\ MergedRows # <<>>
    /\ pc = "raised"

\* C16: a plan is produced only on the status optimal; on any other status
\* the call raises the optimisation failure and leaves no schedule; the LP is
\* solved at most once per call.
C16_PlanIffOptimal ==
    /\ solves <= 1
    /\ pc \in {"solved", "returned"} => status = "optimal" /\ solves = 1
    /\ status = "optimal" => pc \in {"solved", "returned"}
    /\ status \notin {"none", "optimal"} =>
          /\ pc = "raised"
          /\ error = "OptimisationFailed"
          /\ solution = <<>>
          /\ result_df = <<>>
    /\ (pc = "raised" /\ error = "OptimisationFailed") => solves = 1

\* A call with SOC bounds in order whose LP was infeasible: solved once,
\* raised.
C16_Witness ==
    /\ ~InvertedBounds
    /\ status = "infeasible"
    /\ solves = 1
    /\ pc = "raised"

PlanColumns ==
    {"PeriodEnd", "demand", "solar", "price", "batt_charge_kwh",
     "batt_discharge_kwh", "grid_import_kwh", "grid_export_kwh", "soc_kwh",
     "soc_pct", "net_battery_kwh", "net_grid_kwh", "cost_gbp"}

Responded == handler = "optimise_mvp" /\ hpc = "responded"
ExternalCalls == {"requests.get", "get_agile_times", "get_history"}

\* C15: every response of POST /optimise/mvp is a 200 with status success
\* and the complete plan, or a 400 whose detail begins "Optimisation failed: ";
\* a failure while fetching or optimising gives the 400, swapped SOC bounds
\* among them, and nothing ends as an unhandled crash (a 500).
C15_FailuresAnswered400 ==
    Responded =>
        /\ response.status_code \in {200, 400}
        /\ response.status_code = 200 =>
              /\ response.status = "success"
              /\ pc = "returned"
              /\ response.schedule = result_df
              /\ response.schedule # <<>>
        /\ response.status_code = 400 =>
              /\ response.detail[1] = "Optimisation failed: "
              /\ pc # "returned"
        /\ pc # "returned" => response.status_code = 400
        /\ (request.params.min_soc_pct = 90 /\ request.params.max_soc_pct = 20) =>
              response.status_code = 400

C19_DatabasePreferred ==
    db = "rows" => Range(calls) \cap ExternalCalls = {}

\* C20: the job fetch_and_store_solcast fetches the forecast and returns
\* normally, having stored one run with one interval per row when the
\* forecast has rows and nothing when it has none.
C20_JobFetchesAndStores ==
    (handler = "fetch_and_store_solcast" /\ hpc # "entered") =>
        /\ hpc = "returned"
        /\ calls # <<>>
        /\ Len(stored) <= 1
        /\ \A i \in DOMAIN stored : stored[i].intervals > 0

\* The job's calls of one function, in order.
Asked(fn) == SelectSeq(invoked, LAMBDA c : c.fn = fn)
HasRows(c) == ~c.raised /\ ~c.empty

\* C21: fetch_and_store_prices asks for the prices once or twice, a second
\* time only after a first answer without rows; it stores once, the first
\* answer that has rows, if an answer has rows, and not at all otherwise.
C21_PricesAskedAtMostTwice ==
    (handler = "fetch_and_store_prices" /\ hpc # "entered") =>
        LET asks == Asked("get_agile_prices")
            stores == Asked("_store_forecast")
            answers == {i \in DOMAIN asks : HasRows(asks[i])}
        IN /\ Len(asks) \in {1, 2}
           /\ Len(asks) = 2 => ~asks[1].raised /\ asks[1].empty
           /\ Len(stores) = (IF answers = {} THEN 0 ELSE 1)
           /\ answers # {} =>
                 stores[1].rows = asks[MinOf(answers)].rows

\* The job stored the second answer: the first one had no rows.
C21_Witness ==
    /\ handler = "fetch_and_store_prices"
    /\ hpc = "returned"
    /\ Len(Asked("get_agile_prices")) = 2
    /\ Asked("get_agile_prices")[2].rows = 2
    /\ Len(Asked("_store_forecast")) = 1
    /\ stored # <<>>

CountOf(seq, x) == Cardinality({i \in DOMAIN seq : seq[i] = x})

\* C22: _store_forecast is all-or-nothing.  Either the run and all its
\* intervals are committed by one commit and nothing is rolled back, or an
\* exception rolls the session back, leaves nothing of the run in the
\* database and leaves the job as an exception; the session is closed once,
\* as the last thing, in both cases.
C22_StoreAllOrNothing ==
    LET stores == Asked("_store_forecast") IN
    (handler = "fetch_and_store_prices" /\ stores # <<>>) =>
        /\ CountOf(calls, "session.close") = 1
        /\ calls[Len(calls)] = "session.close"
        /\ CountOf(calls, "session.commit") <= 1
        /\ IF stores[1].raised
           THEN /\ CountOf(calls, "session.rollback") = 1
                /\ stored = <<>>
                /\ hpc = "raised"
           ELSE /\ CountOf(calls, "session.rollback") = 0
                /\ CountOf(calls, "session.commit") = 1
                /\ CountOf(calls, "session.add") = 1 + stores[1].rows
                /\ stored = <<[intervals |-> stores[1].rows]>>
                /\ hpc = "returned"

\* The commit of a run of two intervals failed: the run and both intervals
\* had been added, then the session was rolled back.
C22_Witness ==
    /\ handler = "fetch_and_store_prices"
    /\ hpc = "raised"
    /\ Asked("_store_forecast") # <<>>
    /\ CountOf(calls, "session.add") = 3
    /\ CountOf(calls, "session.commit") = 1
    /\ CountOf(calls, "session.rollback") = 1
    /\ stored = <<>>

\* The minutes after midnight an "HH:MM" text names, if it is one.
IsHHMM(s) ==
    /\ Len(s) = 5
    /\ s[3] = ":"
    /\ s[1] \in 0..2 /\ s[2] \in 0..9 /\ s[4] \in 0..5 /\ s[5] \in 0..9
    /\ 10 * s[1] + s[2] <= 23
MinuteOfDay(s) == 60 * (10 * s[1] + s[2]) + 10 * s[4] + s[5]
Scheduled == handler = "send_schedule" /\ hpc # "entered"

\* C23: the schedule has one row per period of the plan, in the plan's
\* order; a row starts 30 minutes before its period's end and ends at it,
\* both as HH:MM; its mode is CHARGE (1) iff the net battery flow is above
\* 0.05 kWh, DISCHARGE (2) iff it is below -0.05 kWh, SELF_USE (0) otherwise.
C23_OneRowPerPeriod ==
    Scheduled =>
        /\ Len(schedule_df) = Len(result_df)
        /\ \A i \in DOMAIN result_df :
              LET row == schedule_df[i]
                  net == result_df[i].net_battery_kwh
                  ends == 30 * result_df[i].PeriodEnd
              IN /\ IsHHMM(row.start) /\ IsHHMM(row.end)
                 /\ MinuteOfDay(row.end) = ends % 1440
                 /\ MinuteOfDay(row.start) = (ends - 30) % 1440
                 /\ row.WorkMode = 1 <=> net > 500
                 /\ row.WorkMode = 2 <=> net < -500
                 /\ row.WorkMode = 0 <=> (net >= -500 /\ net <= 500)

\* A schedule of three periods: one just above the charge threshold, one
\* at it, one just below the discharge threshold and ending at midnight.
C23_Witness ==
    /\ Scheduled
    /\ Len(schedule_df) = 3
    /\ \E i, j, k \in DOMAIN result_df :
          /\ result_df[i].net_battery_kwh = 501
          /\ result_df[j].net_battery_kwh = 500
          /\ result_df[k].net_battery_kwh = -501
          /\ result_df[k].PeriodEnd = 48
          /\ schedule_df[k].end = <<0, 0, ":", 0, 0>>

\* The rows that open a group: the first, a change of mode, a start at
\* midnight; and the k-th of them.
Opens ==
    {i \in DOMAIN schedule_df :
        \/ i = 1
        \/ schedule_df[i].WorkMode # schedule_df[i - 1].WorkMode
        \/ MinuteOfDay(schedule_df[i].start) = 0}
KthOpen(k) == CHOOSE i \in Opens : Cardinality({j \in Opens : j <= i}) = k

\* C24: one request is sent; its groups are, in order, the maximal runs of
\* consecutive rows of one mode, cut also before every row that starts at
\* 00:00; a group starts at its first row's start and ends one minute
\* before its last row's end; every row lies in exactly one group.
C24_GroupsPartitionRows ==
    (handler = "send_schedule" /\ hpc = "sent") =>
        /\ Len(posted) = 1
        /\ LET groups == posted[1].groups
               opens == Cardinality(Opens)
               First(k) == KthOpen(k)
               Last(k) == IF k = opens THEN Len(schedule_df) ELSE KthOpen(k + 1) - 1
           IN /\ Len(groups) = opens
              /\ \A k \in DOMAIN groups :
                    /\ groups[k].startHour \in 0..23 /\ groups[k].endHour \in 0..23
                    /\ groups[k].startMinute \in 0..59
                    /\ groups[k].endMinute \in 0..59
                    /\ 60 * groups[k].startHour + groups[k].startMinute =
                          (30 * result_df[First(k)].PeriodEnd - 30) % 1440
                    /\ 60 * groups[k].endHour + groups[k].endMinute =
                          (30 * result_df[Last(k)].PeriodEnd - 1) % 1440
                    /\ \A i \in First(k)..Last(k) :
                          /\ schedule_df[i].grp = k
                          /\ schedule_df[i].WorkMode = groups[k].workMode
              /\ \A i \in DOMAIN schedule_df : schedule_df[i].grp \in DOMAIN groups

\* Three rows of one mode sent as two groups: the first two rows end at
\* midnight (23:59), the third starts at 00:00.
C24_Witness ==
    /\ handler = "send_schedule"
    /\ hpc = "sent"
    /\ Len(schedule_df) = 3
    /\ \A i \in DOMAIN schedule_df : schedule_df[i].WorkMode = 1
    /\ Len(posted[1].groups) = 2
    /\ posted[1].groups[1].endHour = 23 /\ posted[1].groups[1].endMinute = 59
    /\ posted[1].groups[2].startHour = 0 /\ posted[1].groups[2].startMinute = 0

\* The solver was reached: the three series exist.
Attempted == solves >= 1
\* What a period asks of the grid and the battery together.
Residual(t) == demand(t) - solar_gen(t)

\* C25: if the initial SOC lies within the SOC bounds and every period's
\* demand - pv lies within [-discharge_power_kw*0.5, charge_power_kw*0.5],
\* the LP has an optimum and the call returns a plan.
C25_FeasibleWhenResidualFits ==
    (/\ Attempted
     /\ SocBounds_ok(init_soc_kwh)
     /\ \A t \in 1..n :
           /\ Residual(t) >= -max_batt_discharge_energy
           /\ Residual(t) <= max_batt_charge_energy)
        => /\ status = "optimal"
           /\ pc \in {"solved", "returned"}
           /\ pc = "returned" => Len(result_df) = n

\* A returned plan for a battery at its floor, with a period that asks
\* exactly what the grid may import and a period with a surplus.
C25_Witness ==
    /\ Returned
    /\ init_soc_kwh = soc_min_kwh
    /\ soc_min_kwh < soc_max_kwh
    /\ \E t \in 1..n : Residual(t) = max_batt_charge_energy
    /\ \E t \in 1..n : Residual(t) < 0 /\ Residual(t) >= -max_batt_discharge_energy
    /\ \A t \in 1..n : Residual(t) <= max_batt_charge_energy

\* C26: if some period has |demand - pv| above charge_power_kw*0.5 +
\* discharge_power_kw*0.5, the call fails at the solver, whatever the SOC
\* and the prices.
C26_FailsBeyondGridAndBattery ==
    (/\ Attempted
     /\ \E t \in 1..n :
           Abs(Residual(t)) > max_batt_charge_energy + max_batt_discharge_energy)
        => /\ pc = "raised"
           /\ error = "OptimisationFailed"
           /\ status # "optimal"
           /\ result_df = <<>>

\* A failed call whose battery is within its bounds and has energy to
\* give: one period asks more than import and discharge together.
C26_Witness ==
    /\ pc = "raised"
    /\ error = "OptimisationFailed"
    /\ init_soc_kwh > soc_min_kwh /\ init_soc_kwh < soc_max_kwh
    /\ n = 2
    /\ Abs(Residual(1)) <= max_batt_charge_energy
    /\ Abs(Residual(2)) > max_batt_charge_energy + max_batt_discharge_energy

\* No grid arbitrage in period t: price/100 + 0.002 > export_price/100.
NoArbitrage(t) == import_prices(t) + 2 * grid_penalty_weight > export_price_gbp

\* C27: in a returned plan, a period without grid arbitrage does not both
\* import and export, and its cost_gbp is the cost of its net grid flow:
\* at the import price if the net flow is an import, at the export price if
\* it is an export.
C27_NoArbitrageNoRoundTrip ==
    Returned =>
        \A t \in Periods :
            NoArbitrage(t) =>
                /\ ~(solution[t].g_import > 0 /\ solution[t].g_export > 0)
                /\ result_df[t].cost_gbp =
                      (IF result_df[t].net_grid_kwh >= 0
                       THEN result_df[t].net_grid_kwh * import_prices(t)
                       ELSE result_df[t].net_grid_kwh * export_price_gbp)

\* A returned plan with a period whose import price equals the export
\* price, so that only the penalty rules arbitrage out, and which exports.
C27_Witness ==
    /\ Returned
    /\ \E t \in Periods :
          /\ import_prices(t) = export_price_gbp
          /\ solution[t].g_export > 0
          /\ result_df[t].cost_gbp < 0

\* C28: in every returned plan the signed net columns balance exactly in
\* every period: solar - demand + net_grid_kwh - net_battery_kwh = 0.
C28_NetColumnsBalance ==
    Returned =>
        \A t \in Periods :
            result_df[t].solar - result_df[t].demand
                + result_df[t].net_grid_kwh - result_df[t].net_battery_kwh = 0

\* A returned plan with battery flow whose display columns do not balance.
C28_Witness ==
    /\ Returned
    /\ \E t \in Periods :
          /\ result_df[t].net_battery_kwh # 0
          /\ result_df[t].solar + result_df[t].batt_discharge_kwh
                + result_df[t].grid_import_kwh
             # result_df[t].demand + result_df[t].batt_charge_kwh
                + result_df[t].grid_export_kwh

\* The keys of a frame's rows, and whether no key repeats.
Keys(rows, key) == {rows[i][key] : i \in DOMAIN rows}
UniqueKey(rows, key) == Cardinality(Keys(rows, key)) = Len(rows)
UniqueKeys ==
    /\ UniqueKey(solar_df.rows, "PeriodEnd")
    /\ UniqueKey(prices_df.rows, "PeriodEnd")
    /\ UniqueKey(demand_profile.rows, "time_of_day")

\* The triples of a solar row, a price row of the same PeriodEnd and a
\* demand row of its time of day, all three values finite.
Triples ==
    {x \in (DOMAIN solar_df.rows) \X (DOMAIN prices_df.rows)
             \X (DOMAIN demand_profile.rows) :
        /\ solar_df.rows[x[1]].PeriodEnd = prices_df.rows[x[2]].PeriodEnd
        /\ solar_df.rows[x[1]].PeriodEnd % 48 = demand_profile.rows[x[3]].time_of_day
        /\ solar_df.rows[x[1]].PvEstimate.kind = "num"
        /\ prices_df.rows[x[2]].price.kind = "num"
        /\ demand_profile.rows[x[3]].energy_kwh.kind = "num"}

\* C29: a returned plan has one row per triple of matching solar, price
\* and demand rows with finite values; with unique keys in the three inputs
\* it has no PeriodEnd twice and covers exactly the timestamps that have
\* such a triple; and each row's SOC follows from the row before it in the
\* plan, however far apart their timestamps are.
C29_OneRowPerTriple ==
    Returned =>
        LET triples == Triples
            stamps == {solar_df.rows[x[1]].PeriodEnd : x \in triples}
        IN /\ Len(result_df) = Cardinality(triples)
           /\ UniqueKeys =>
                 /\ UniqueKey(result_df, "PeriodEnd")
                 /\ Keys(result_df, "PeriodEnd") = stamps
           /\ \A t \in Periods :
                 result_df[t].soc_kwh =
                     (IF t = 1 THEN init_soc_kwh ELSE result_df[t - 1].soc_kwh)
                         + result_df[t].net_battery_kwh

\* A returned plan from inputs with unique keys: its two rows are a day
\* apart and share the one demand row, and the battery is used.
C29_Witness ==
    /\ Returned
    /\ UniqueKeys
    /\ Len(demand_profile.rows) = 1
    /\ Len(result_df) = 2
    /\ result_df[2].PeriodEnd - result_df[1].PeriodEnd = 48
    /\ result_df[2].net_battery_kwh # 0

\* C30: the defaulting after the filter changes no value.  A joined row
\* that passes the filter has its pv estimate and its demand already, so
\* the defaults are not applied to it; the rows that reach the LP are rows
\* of the join as they were, and a row with a null pv estimate or demand is
\* not among them.
C30_DefaultsNeverApplied ==
    LET joined == MergedRows
        cols == numeric_cols(MergedColumns)
        whole(r) == \A c \in {"PvEstimate", "demand"} \cap MergedColumns :
                       r[c].kind # "nan"
    IN /\ \A r \in Range(joined) :
             Mask(r, cols) => FillNa(r, MergedColumns) = r
       /\ pc \in {"normalised", "solved", "returned"} =>
             /\ \A r \in Range(merged.rows) :
                   /\ whole(r)
                   /\ Count(merged.rows, r) <= Count(joined, r)
             /\ Len(merged.rows) <=
                   Cardinality({i \in DOMAIN joined : whole(joined[i])})

\* A normalised series from a join that had a row with a null demand and a
\* row with a null pv estimate: both were dropped, a row was kept.
C30_Witness ==
    /\ pc = "normalised"
    /\ \E i \in DOMAIN MergedRows : MergedRows[i].demand = NaN
    /\ \E i \in DOMAIN MergedRows : MergedRows[i].PvEstimate = NaN
    /\ merged.rows # <<>>
    /\ dropped >= 2

====
